---- MODULE Spec2Model ----
(***************************************************************************)
(* Model of gen_templates.py, the template packer of moonjinja: it reads   *)
(* the *.html files of src/templates, escapes their text and writes        *)
(* src/template.mbt, a MoonBit function matching a template name to its    *)
(* text.  Text is modelled as a sequence of one-character strings.         *)
(***************************************************************************)
EXTENDS Naturals, Sequences, FiniteSets

(* ------------------------------ bounds -------------------------------- *)

MaxLen == 3

MaxRuns == 2

MaxEdits == 1

(* ----------------------- characters and text -------------------------- *)

BACKSLASH == "\\"

QUOTE == "\""

NEWLINE == "\n"

CR == "\r"

(* stands for the lone surrogate U+DCFF, which os.listdir gives for the    *)
(* byte 0xFF of a file name that is not UTF-8                              *)
SURROGATE == "?"

Alphabet == {BACKSLASH, QUOTE, NEWLINE, "n", "a"}

RECURSIVE TextsOfLen(_)
TextsOfLen(k) ==
  IF k = 0 THEN {<< >>}
  ELSE {<<c>> \o t : c \in Alphabet, t \in TextsOfLen(k - 1)}

Texts == UNION {TextsOfLen(k) : k \in 0..MaxLen}

StartsWithAt(s, p, pre) ==
  /\ p + Len(pre) - 1 <= Len(s)
  /\ \A i \in 1..Len(pre) : s[p + i - 1] = pre[i]

(* str.replace(old, new) for a one-character old *)
RECURSIVE replace(_, _, _)
replace(s, old, new) ==
  IF s = << >> THEN << >>
  ELSE (IF Head(s) = old THEN new ELSE <<Head(s)>>) \o replace(Tail(s), old, new)

(* str.endswith(suffix) *)
endswith(s, suffix) ==
  /\ Len(suffix) <= Len(s)
  /\ SubSeq(s, Len(s) - Len(suffix) + 1, Len(s)) = suffix

(* ------------------------- escape_content ----------------------------- *)

escape_content_backslash_last(content) ==
  replace(replace(replace(content, QUOTE, <<BACKSLASH, QUOTE>>),
                  NEWLINE, <<BACKSLASH, "n">>),
          BACKSLASH, <<BACKSLASH, BACKSLASH>>)

escape_content(content) ==
  replace(replace(replace(content, BACKSLASH, <<BACKSLASH, BACKSLASH>>),
                  QUOTE, <<BACKSLASH, QUOTE>>),
          NEWLINE, <<BACKSLASH, "n">>)

(* The reader of an escaped text: left to right, each backslash pair is    *)
(* turned back into the character it stands for.                           *)
EscapeValue(c) == IF c = "n" THEN NEWLINE ELSE c

RECURSIVE unescape(_)
unescape(s) ==
  IF s = << >> THEN << >>
  ELSE IF Head(s) = BACKSLASH /\ Len(s) >= 2
       THEN <<EscapeValue(s[2])>> \o unescape(SubSeq(s, 3, Len(s)))
       ELSE <<Head(s)>> \o unescape(Tail(s))

(* ---------------------- the program's constants ----------------------- *)

(* the ".html" of fname.endswith(".html") *)
Suffix == << ".", "h", "t", "m", "l" >>

HeaderLine ==
  << "p", "u", "b", " ", "f", "n", " ", "l", "o", "a", "d", "_", "t", "e",
     "m", "p", "l", "a", "t", "e", "(", "n", "a", "m", "e", ":", " ", "S",
     "t", "r", "i", "n", "g", ")", " ", "-", ">", " ", "S", "t", "r", "i",
     "n", "g", "!", "J", "i", "n", "j", "a", "E", "r", "r", "o", "r", " ",
     "{", "\n" >>

MatchLine ==
  << " ", " ", "m", "a", "t", "c", "h", " ", "n", "a", "m", "e", " ", "{",
     "\n" >>

FallbackLine ==
  << " ", " ", " ", " ", "_", " ", "=", ">", " ", "r", "a", "i", "s", "e",
     " ", "R", "e", "n", "d", "e", "r", "E", "r", "r", "o", "r", "(", "\"",
     "T", "e", "m", "p", "l", "a", "t", "e", " ", "n", "o", "t", " ", "f",
     "o", "u", "n", "d", ":", " ", "\"", " ", "+", " ", "n", "a", "m", "e",
     ")", "\n" >>

CloseMatch == << " ", " ", "}", "\n" >>

CloseFn == << "}", "\n" >>

(* the pieces of the f-string     "{fname}" => return "{content}"        *)
ArmOpen == << " ", " ", " ", " ", "\"" >>

ArmMiddle ==
  << "\"", " ", "=", ">", " ", "r", "e", "t", "u", "r", "n", " ", "\"" >>

ArmClose == << "\"" >>

(* ------------------- the file system the program sees ----------------- *)

NameA == << "a", ".", "h", "t", "m", "l" >>

NameTxt == << "n", ".", "t", "x", "t" >>

(* a legal file name of 85 characters: it closes the arm it is put in,     *)
(* adds a fallback line and opens an arm named b.html                      *)
NamePayload ==
  <<"a">> \o ArmMiddle \o ArmClose \o <<NEWLINE>> \o FallbackLine
    \o ArmOpen \o << "b", ".", "h", "t", "m", "l" >>

(* a legal file name that is not UTF-8: the byte 0xFF, then .html *)
NameNotUtf8 == << SURROGATE, ".", "h", "t", "m", "l" >>

Names == {NameA, NameTxt, NamePayload, NameNotUtf8}

TextPlain == << "<", "p", ">", "h", "i", "<", "/", "p", ">" >>

(* a backslash followed by n, a double quote, a DOS line end, a line end *)
TextSpecials == << BACKSLASH, "n", QUOTE, CR, NEWLINE, "b", NEWLINE >>

DiskTexts == {TextPlain, TextSpecials}

(* a file on disk: its text, or a file open() or read() fails on *)
Unreadable == [readable |-> FALSE, data |-> << >>]

DiskFiles == {[readable |-> TRUE, data |-> t] : t \in DiskTexts} \cup {Unreadable}

(* what a file of that name may be: main opens the files whose name ends  *)
(* with .html and no other, so the others are given one content; the text  *)
(* with characters to escape is given to the file of the plain name, and   *)
(* the files whose names have such characters hold the plain text or       *)
(* cannot be read                                                          *)
DiskFilesOf(n) ==
  IF n = NameA THEN DiskFiles
  ELSE IF endswith(n, Suffix)
       THEN {[readable |-> TRUE, data |-> TextPlain], Unreadable}
       ELSE {[readable |-> TRUE, data |-> TextPlain]}

EmptyDir == [n \in {} |-> Unreadable]

Dirs ==
  UNION {{fs \in [S -> DiskFiles] : \A n \in S : fs[n] \in DiskFilesOf(n)} :
           S \in SUBSET Names}

(* TEMPLATE_DIR: absent, a directory, or a path that exists and is none *)
PathKinds == {"absent", "dir", "file"}

(* OUTPUT_FILE: absent, a file, or a path open(.., "w") fails on *)
NoFile == [exists |-> FALSE, writable |-> TRUE, data |-> << >>]

StaleOutput ==
  [exists |-> TRUE, writable |-> TRUE, data |-> << "o", "l", "d", "\n" >>]

OutputIsDir == [exists |-> TRUE, writable |-> FALSE, data |-> << >>]

(* ------------------------------- main --------------------------------- *)

(* os.path.exists(TEMPLATE_DIR) *)
path_exists_always(kind) == TRUE

path_exists(kind) == kind # "absent"

(* os.listdir: the entries, in an order the file system chooses *)
RECURSIVE Orders(_)
Orders(S) ==
  IF S = {} THEN {<< >>}
  ELSE UNION {{<<n>> \o o : o \in Orders(S \ {n})} : n \in S}

listdir(fs) == Orders(DOMAIN fs)

(* f.read() of a file opened in text mode: universal newlines *)
RECURSIVE read_text(_)
read_text(data) ==
  IF data = << >> THEN << >>
  ELSE IF Head(data) = CR
       THEN <<NEWLINE>> \o
            read_text(IF Len(data) >= 2 /\ data[2] = NEWLINE
                      THEN SubSeq(data, 3, Len(data)) ELSE Tail(data))
       ELSE <<Head(data)>> \o read_text(Tail(data))

(* f'    "{fname}" => return "{content}"' *)
arm(fname, content) == ArmOpen \o fname \o ArmMiddle \o content \o ArmClose

(* where a file that cannot be read raises: open(path) at line 22 (a       *)
(* directory, a dangling link, no permission) or f.read() at line 23       *)
(* (bytes that are not UTF-8)                                              *)
ReadFailureLines == {22, 23}

(* the loop over os.listdir: a file that cannot be read raises *)
RECURSIVE collect(_, _, _)
collect(order, fs, acc) ==
  IF order = << >> THEN [raised |-> FALSE, entries |-> acc]
  ELSE LET fname == Head(order) IN
       IF endswith(fname, Suffix)
       THEN IF ~fs[fname].readable
            THEN [raised |-> TRUE, entries |-> acc]
            ELSE collect(Tail(order), fs,
                   Append(acc, arm(fname, escape_content(read_text(fs[fname].data)))))
       ELSE collect(Tail(order), fs, acc)

(* open(OUTPUT_FILE, "w"): the file is created or truncated *)
open_append(old) == old.data

open_w(old) == << >>

(* str.encode("utf-8") of a written text succeeds: no lone surrogate *)
encodable(s) == \A i \in 1..Len(s) : s[i] # SURROGATE

(* for line in entries: out.write(line + "\n"); a write that cannot be     *)
(* encoded raises and leaves what was written before it                    *)
RECURSIVE write_lines(_, _)
write_lines(f, lines) ==
  IF lines = << >> THEN [data |-> f, raised |-> FALSE]
  ELSE IF ~encodable(Head(lines)) THEN [data |-> f, raised |-> TRUE]
  ELSE write_lines(f \o Head(lines) \o <<NEWLINE>>, Tail(lines))

(* the with block of lines 27-34: the file it leaves, and the line that    *)
(* raised (0: none)                                                        *)
write_output_keep_existing(old, lines) ==
  IF ~old.writable THEN [file |-> old, raised |-> 27]
  ELSE IF old.exists THEN [file |-> old, raised |-> 0]
  ELSE LET w == write_lines(HeaderLine \o MatchLine, lines) IN
       IF w.raised
       THEN [file |-> [exists |-> TRUE, writable |-> TRUE, data |-> w.data],
             raised |-> 31]
       ELSE [file |-> [exists |-> TRUE, writable |-> TRUE,
                       data |-> w.data \o FallbackLine \o CloseMatch \o CloseFn],
             raised |-> 0]

write_output(old, lines) ==
  IF ~old.writable THEN [file |-> old, raised |-> 27]
  ELSE LET w == write_lines(open_w(old) \o HeaderLine \o MatchLine, lines) IN
       IF w.raised
       THEN [file |-> [exists |-> TRUE, writable |-> TRUE, data |-> w.data],
             raised |-> 31]
       ELSE [file |-> [exists |-> TRUE, writable |-> TRUE,
                       data |-> w.data \o FallbackLine \o CloseMatch \o CloseFn],
             raised |-> 0]

(* ------------------------------ state --------------------------------- *)

VARIABLES
  templateDir, \* what src/templates is: absent, a directory, another file
  files,       \* src/templates: file name -> file on disk
  outFile,     \* src/template.mbt
  console,     \* what the last run printed, or that it ended in a traceback
  entries,     \* main's entries at the end of the last run
  listing,     \* the .html names of the last run's os.listdir, in its order
  preOut,      \* outFile when the last run started
  runKind,     \* templateDir when the last run started
  runDir,      \* files when the last run started
  prev,        \* the run before the last one, when it generated
  nRuns,
  nEdits,
  text,        \* escape_content's argument
  escaped,     \* its result
  decoded,     \* the result read back
  phase

vars ==
  << templateDir, files, outFile, console, entries, listing, preOut, runKind,
     runDir, prev, nRuns, nEdits, text, escaped, decoded, phase >>

fsVars ==
  << templateDir, files, outFile, console, entries, listing, preOut, runKind,
     runDir, prev, nRuns, nEdits >>

escVars == << text, escaped, decoded, phase >>

NoRun == [valid |-> FALSE, files |-> EmptyDir, order |-> << >>, out |-> NoFile]

(* what a run printed: count is the number of the success line, line the  *)
(* source line an uncaught exception was raised at                         *)
Silent == [msg |-> "none", count |-> 0, line |-> 0]

NotFoundMsg == [msg |-> "not found", count |-> 0, line |-> 0]

Traceback(l) == [msg |-> "traceback", count |-> 0, line |-> l]

GeneratedMsg(n) == [msg |-> "generated", count |-> n, line |-> 0]

LastRun == [valid |-> TRUE, files |-> runDir, order |-> listing, out |-> outFile]

Init ==
  /\ templateDir \in PathKinds
  /\ files \in (IF templateDir = "dir" THEN Dirs ELSE {EmptyDir})
  /\ outFile \in {NoFile, StaleOutput, OutputIsDir}
  /\ console = Silent
  /\ entries = << >>
  /\ listing = << >>
  /\ preOut = NoFile
  /\ runKind = "absent"
  /\ runDir = EmptyDir
  /\ prev = NoRun
  /\ nRuns = 0
  /\ nEdits = 0
  /\ text = << >> /\ escaped = << >> /\ decoded = << >> /\ phase = "off"

(* the entries of a listing that pass the endswith test, in its order *)
MatchingOrder(order) == SelectSeq(order, LAMBDA n : endswith(n, Suffix))

(* one run of main() *)
Main ==
  /\ nRuns < MaxRuns
  /\ nRuns' = nRuns + 1
  /\ preOut' = outFile
  /\ runKind' = templateDir
  /\ runDir' = files
  /\ prev' = IF console.msg = "generated" THEN LastRun ELSE NoRun
  /\ IF ~path_exists(templateDir)
     THEN /\ console' = NotFoundMsg
          /\ entries' = << >>
          /\ listing' = << >>
          /\ outFile' = outFile
     ELSE IF templateDir # "dir"
     THEN /\ console' = Traceback(19)
          /\ entries' = << >>
          /\ listing' = << >>
          /\ outFile' = outFile
     ELSE \E order \in listdir(files) :
            LET r == collect(order, files, << >>)
                w == write_output(outFile, r.entries)
            IN /\ listing' = MatchingOrder(order)
               /\ entries' = r.entries
               /\ IF r.raised
                  THEN /\ \E l \in ReadFailureLines : console' = Traceback(l)
                       /\ outFile' = outFile
                  ELSE /\ outFile' = w.file
                       /\ console' = IF w.raised # 0 THEN Traceback(w.raised)
                                     ELSE GeneratedMsg(Len(r.entries))
  /\ UNCHANGED << templateDir, files, nEdits >>
  /\ UNCHANGED escVars

(* The template directory changes between two runs; what it holds before  *)
(* the first run is Init's choice.                                         *)
Edited ==
  /\ nEdits < MaxEdits
  /\ 0 < nRuns /\ nRuns < MaxRuns
  /\ nEdits' = nEdits + 1
  /\ UNCHANGED << outFile, console, entries, listing, preOut, runKind,
                  runDir, prev, nRuns >>
  /\ UNCHANGED escVars

AddFile ==
  /\ templateDir = "dir"
  /\ \E n \in Names \ DOMAIN files :
       \E d \in DiskFilesOf(n) :
         files' = [m \in DOMAIN files \cup {n} |-> IF m = n THEN d ELSE files[m]]
  /\ UNCHANGED templateDir
  /\ Edited

EditFile ==
  /\ \E n \in DOMAIN files :
       \E d \in DiskFilesOf(n) \ {files[n]} : files' = [files EXCEPT ![n] = d]
  /\ UNCHANGED templateDir
  /\ Edited

RemoveFile ==
  /\ \E n \in DOMAIN files :
       files' = [m \in DOMAIN files \ {n} |-> files[m]]
  /\ UNCHANGED templateDir
  /\ Edited

RemoveDir ==
  /\ templateDir = "dir"
  /\ templateDir' = "absent"
  /\ files' = EmptyDir
  /\ Edited

MakeDir ==
  /\ templateDir = "absent"
  /\ templateDir' = "dir"
  /\ files' = EmptyDir
  /\ Edited

Next == Main \/ AddFile \/ EditFile \/ RemoveFile \/ RemoveDir \/ MakeDir

Spec == Init /\ [][Next]_vars

(* ------------- the generated file as text and as a function ----------- *)

(* the lines of a text that ends with a line end, without the line ends *)
Lines(s) ==
  LET nl == {i \in 1..Len(s) : s[i] = NEWLINE}
      at(j) == CHOOSE p \in nl : Cardinality({q \in nl : q < p}) = j - 1
  IN [j \in 1..Cardinality(nl) |->
        SubSeq(s, IF j = 1 THEN 1 ELSE at(j - 1) + 1, at(j) - 1)]

FallbackText == SubSeq(FallbackLine, 1, Len(FallbackLine) - 1)

(* the lines between "  match name {" and "  }" *)
BodyLines(s) == LET l == Lines(s) IN SubSeq(l, 3, Len(l) - 2)

ArmLines(s) == SelectSeq(BodyLines(s), LAMBDA l : l # FallbackText)

(* A double-quoted literal read from its first character on: it ends at    *)
(* the first double quote that no backslash escapes, holds no line end,    *)
(* and a backslash in it starts one of the escapes \\ \" \n.               *)
RECURSIVE read_literal(_, _, _)
read_literal(s, i, acc) ==
  IF i > Len(s) THEN [ok |-> FALSE, value |-> acc, next |-> i]
  ELSE IF s[i] = QUOTE THEN [ok |-> TRUE, value |-> acc, next |-> i + 1]
  ELSE IF s[i] = NEWLINE THEN [ok |-> FALSE, value |-> acc, next |-> i]
  ELSE IF s[i] = BACKSLASH
       THEN IF i + 1 <= Len(s) /\ s[i + 1] \in {BACKSLASH, QUOTE, "n"}
            THEN read_literal(s, i + 2, Append(acc, EscapeValue(s[i + 1])))
            ELSE [ok |-> FALSE, value |-> acc, next |-> i]
       ELSE read_literal(s, i + 1, Append(acc, s[i]))

ArmArrow == Tail(ArmMiddle)

FallbackArm == [fallback |-> TRUE, name |-> << >>, value |-> << >>]

(* the arms of the match block, in order, up to the closing braces *)
RECURSIVE parse_arms(_, _, _)
parse_arms(s, i, acc) ==
  IF StartsWithAt(s, i, CloseMatch \o CloseFn)
       /\ i + Len(CloseMatch) + Len(CloseFn) - 1 = Len(s)
  THEN [ok |-> TRUE, arms |-> acc]
  ELSE IF StartsWithAt(s, i, FallbackLine)
  THEN parse_arms(s, i + Len(FallbackLine), Append(acc, FallbackArm))
  ELSE IF StartsWithAt(s, i, ArmOpen)
  THEN LET nm == read_literal(s, i + Len(ArmOpen), << >>) IN
       IF ~nm.ok \/ ~StartsWithAt(s, nm.next, ArmArrow)
       THEN [ok |-> FALSE, arms |-> acc]
       ELSE LET v == read_literal(s, nm.next + Len(ArmArrow), << >>) IN
            IF ~v.ok \/ ~StartsWithAt(s, v.next, <<NEWLINE>>)
            THEN [ok |-> FALSE, arms |-> acc]
            ELSE parse_arms(s, v.next + 1,
                   Append(acc, [fallback |-> FALSE, name |-> nm.value,
                                value |-> v.value]))
  ELSE [ok |-> FALSE, arms |-> acc]

GeneratedFunction(out) ==
  IF out.exists /\ StartsWithAt(out.data, 1, HeaderLine \o MatchLine)
  THEN parse_arms(out.data, Len(HeaderLine) + Len(MatchLine) + 1, << >>)
  ELSE [ok |-> FALSE, arms |-> << >>]

(* the text of RenderError("Template not found: " + name) *)
NotFoundPrefix == SubSeq(FallbackLine, 29, 48)

(* load_template(name) of the generated file: the first arm that matches *)
load_template(out, name) ==
  LET f == GeneratedFunction(out)
      hits == {i \in 1..Len(f.arms) : f.arms[i].fallback \/ f.arms[i].name = name}
  IN IF ~f.ok \/ hits = {}
     THEN [kind |-> "no function", value |-> << >>]
     ELSE LET i == CHOOSE j \in hits : \A k \in hits : j <= k IN
          IF f.arms[i].fallback
          THEN [kind |-> "RenderError", value |-> NotFoundPrefix \o name]
          ELSE [kind |-> "return", value |-> f.arms[i].value]

(* --------------- escape_content on its own: bounded texts -------------- *)

InitEscape ==
  /\ text \in Texts
  /\ escaped = << >> /\ decoded = << >> /\ phase = "input"
  /\ templateDir = "absent" /\ files = EmptyDir /\ outFile = NoFile
  /\ console = Silent /\ entries = << >> /\ listing = << >>
  /\ preOut = NoFile /\ runKind = "absent" /\ runDir = EmptyDir
  /\ prev = NoRun /\ nRuns = 0 /\ nEdits = 0

Escape ==
  /\ phase = "input"
  /\ escaped' = escape_content(text)
  /\ phase' = "escaped"
  /\ UNCHANGED << text, decoded >>
  /\ UNCHANGED fsVars

Unescape ==
  /\ phase = "escaped"
  /\ decoded' = unescape(escaped)
  /\ phase' = "decoded"
  /\ UNCHANGED << text, escaped >>
  /\ UNCHANGED fsVars

NextEscape == Escape \/ Unescape

SpecEscape == InitEscape /\ [][NextEscape]_vars

(* ------------------------------ claims -------------------------------- *)

Generated == console.msg = "generated"

MatchingNames(fs) == {n \in DOMAIN fs : endswith(n, Suffix)}

(* C1: reading an escaped text back, left to right and a backslash pair at *)
(* a time, gives the text that was escaped, for every text over backslash, *)
(* double quote, newline and ordinary characters.                          *)
C1_RoundTrip == phase = "decoded" => decoded = text

C1_Witness ==
  /\ phase = "decoded"
  /\ text = <<BACKSLASH, QUOTE, NEWLINE>>
  /\ escaped = <<BACKSLASH, BACKSLASH, BACKSLASH, QUOTE, BACKSLASH, "n">>
  /\ decoded = text

(* C2: a run that finds no template directory reports that the directory   *)
(* was not found and leaves the output file as it was: not created when    *)
(* absent, not modified when present.                                      *)
C2_MissingDirWritesNothing ==
  (nRuns > 0 /\ runKind = "absent")
    => (console = NotFoundMsg /\ outFile = preOut)

C2_Witness ==
  /\ nRuns > 0 /\ runKind = "absent"
  /\ prev.valid /\ preOut = prev.out
  /\ console = NotFoundMsg /\ outFile = preOut

(* C6 as claimed: two runs in a row over the same files with the same      *)
(* contents write the same output, whatever order the listing has on each. *)
C6_SameFilesSameOutput ==
  (Generated /\ prev.valid /\ prev.files = runDir) => outFile = prev.out

(* C6 as amended: two runs in a row over the same files with the same      *)
(* contents write the same output when the listing enumerates the matching *)
(* files in the same order on both runs.                                   *)
C6_SameFilesSameOrderSameOutput ==
  (/\ Generated /\ prev.valid /\ prev.files = runDir
   /\ prev.order = listing)
  => outFile = prev.out

C6_Witness ==
  /\ Generated /\ prev.valid /\ prev.files = runDir
  /\ prev.order = listing
  /\ Len(listing) >= 2
  /\ outFile = prev.out

FrameLen ==
  Len(HeaderLine) + Len(MatchLine) + Len(FallbackLine) + Len(CloseMatch)
    + Len(CloseFn)

RECURSIVE ArmsLen(_, _)
ArmsLen(S, fs) ==
  IF S = {} THEN 0
  ELSE LET n == CHOOSE m \in S : TRUE IN
       Len(arm(n, escape_content(read_text(fs[n].data)))) + 1
         + ArmsLen(S \ {n}, fs)

(* C9: what a run writes depends on the template directory at that run     *)
(* alone: the same entries over any earlier output file give the same      *)
(* output, and the output is as long as the frame and the arms of the      *)
(* files present at that run, so nothing of a removed file or of an        *)
(* earlier output is left in it.                                           *)
C9_OutputFromCurrentDirOnly ==
  Generated =>
    /\ \A old \in {NoFile, StaleOutput, preOut} :
         write_output(old, entries) = [file |-> outFile, raised |-> 0]
    /\ Len(outFile.data) = FrameLen + ArmsLen(MatchingNames(runDir), runDir)

C9_Witness ==
  /\ Generated /\ prev.valid /\ preOut = prev.out
  /\ \E n \in MatchingNames(prev.files) : n \notin DOMAIN runDir
  /\ MatchingNames(runDir) # {}
  /\ Len(outFile.data) < Len(preOut.data)

(* C10: a run in which a matching file cannot be read ends without a       *)
(* success report and leaves the output file as it was; and no run leaves  *)
(* an output file with arms for only some of the matching files: a run     *)
(* that changed the output file reported success and wrote an arm for      *)
(* every matching file.                                                    *)
C10_NoPartialOutput ==
  /\ (/\ nRuns > 0 /\ runKind = "dir"
      /\ \E n \in MatchingNames(runDir) : ~runDir[n].readable)
     => (~Generated /\ outFile = preOut)
  /\ (nRuns > 0 /\ outFile # preOut) =>
       /\ Generated
       /\ Len(entries) = Cardinality(MatchingNames(runDir))
       /\ console.count = Len(entries)

(* the part of C10 about reading: a read failure leaves the output file    *)
(* as it was and prints no success line                                    *)
ReadFailureWritesNothing ==
  (/\ nRuns > 0 /\ runKind = "dir"
   /\ \E n \in MatchingNames(runDir) : ~runDir[n].readable)
  => (/\ console.msg = "traceback" /\ console.line \in ReadFailureLines
      /\ outFile = preOut)

(* a literal's text between its quotes: no double quote that a backslash   *)
(* does not escape, no line end, no backslash left without its character   *)
RECURSIVE WellFormedLiteral(_)
WellFormedLiteral(body) ==
  IF body = << >> THEN TRUE
  ELSE IF Head(body) = QUOTE \/ Head(body) = NEWLINE THEN FALSE
  ELSE IF Head(body) = BACKSLASH
       THEN Len(body) >= 2 /\ WellFormedLiteral(SubSeq(body, 3, Len(body)))
       ELSE WellFormedLiteral(Tail(body))

NameB == << "b", ".", "h", "t", "m", "l" >>

Queries == Names \cup {NameB, <<"a">>, << >>}

ArmPattern(n) == ArmOpen \o n \o ArmMiddle

(* C3: after a run that generated, the generated function called with the  *)
(* name of a matching file returns the text read from that file.           *)
C3_LookupReturnsContent ==
  Generated =>
    \A n \in MatchingNames(runDir) :
      load_template(outFile, n)
        = [kind |-> "return", value |-> read_text(runDir[n].data)]

(* C4: after a run that generated, the match block holds one arm line for  *)
(* each matching directory entry and none for another entry or name, and   *)
(* as many arm lines as the success report counts.                         *)
C4_OneArmPerMatchingEntry ==
  Generated =>
    LET a == ArmLines(outFile.data) IN
    /\ Len(a) = console.count
    /\ \A n \in MatchingNames(runDir) :
         Cardinality({i \in 1..Len(a) : StartsWithAt(a[i], 1, ArmPattern(n))}) = 1
    /\ \A i \in 1..Len(a) :
         Cardinality({n \in MatchingNames(runDir) :
                        StartsWithAt(a[i], 1, ArmPattern(n))}) = 1

(* the last run opened the output file and wrote to it *)
Wrote == Generated \/ (console.msg = "traceback" /\ console.line = 31)

(* C5: every output written is one complete function definition, and the   *)
(* name pattern and the returned text of each arm are well-formed          *)
(* double-quoted literals.                                                 *)
C5_ArmsAreWellFormedLiterals ==
  Wrote =>
    /\ endswith(outFile.data, FallbackLine \o CloseMatch \o CloseFn)
    /\ \A n \in MatchingNames(runDir) :
         /\ WellFormedLiteral(n)
         /\ WellFormedLiteral(escape_content(read_text(runDir[n].data)))

(* C7: after a run that generated, the generated function called with a    *)
(* name that is no matching file's name raises the not-found error that    *)
(* carries that name.                                                      *)
C7_UnknownNameNotFound ==
  Generated =>
    \A q \in Queries \ MatchingNames(runDir) :
      load_template(outFile, q)
        = [kind |-> "RenderError", value |-> NotFoundPrefix \o q]

(* C8: in every output written, the fallback arm is there once, as the     *)
(* last line of the match block, and the arm lines before it are those of  *)
(* the matching files in the order the listing gave.                       *)
C8_FallbackOnceAndLast ==
  Wrote =>
    LET b == BodyLines(outFile.data)
        o == listing
    IN /\ Cardinality({i \in 1..Len(b) : b[i] = FallbackText}) = 1
       /\ Len(b) >= 1 /\ b[Len(b)] = FallbackText
       /\ Len(b) = Len(o) + 1
       /\ \A i \in 1..Len(o) : StartsWithAt(b[i], 1, ArmPattern(o[i]))

(* the cases of C3, C4, C7 and C8 with file names that need no escaping *)
PlainNames == \A n \in MatchingNames(runDir) : WellFormedLiteral(n)

PlainNamesBehave ==
  (Generated /\ PlainNames) =>
    /\ C3_LookupReturnsContent /\ C4_OneArmPerMatchingEntry
    /\ C7_UnknownNameNotFound /\ C8_FallbackOnceAndLast

====
